---- MODULE Spec2Model ----
(***************************************************************************)
(* Model of src/app.py: the function-calling chat loop (lines 340-400)     *)
(* and the three handlers of ClinicalFunctions (lines 182-316).            *)
(*                                                                         *)
(* Python values are tagged records so that values of different Python     *)
(* types can sit in one history and be compared:                           *)
(*   PyStr(s), PyInt(n), PyList(e), PyDict(m), PyNone.                     *)
(* A str is a TLA+ string; the comma separated nct_ids argument is a       *)
(* sequence of one-character strings so that replace/split can be          *)
(* computed character by character.                                        *)
(***************************************************************************)
EXTENDS Integers, Sequences, FiniteSets, TLC

VARIABLES
    \* ---- chat loop (module level script, lines 340-400) ----
    messages,        \* st.session_state["messages"]
    pc,              \* position of the script run
    openai_api_key,  \* line 10: TRUE iff the environment holds a key
    choice,          \* sidebar plugin choice of the current run
    response,        \* the last completed LLM response
    turns,           \* number of submitted inputs
    turnStart,       \* Len(messages) when the current turn was submitted
    rounds,          \* function-call responses of the LLM in this session
    turnCalls,       \* the function-call responses of this turn, in order
    invocations,     \* executions of function_to_call(**function_args) in this turn
    llmCalls,        \* number of llm(...) calls of the session
    llmCallsTurn,    \* number of llm(...) calls of this turn
    llmInput,        \* the argument of the last llm(...) call
    lastDispatch,    \* what the last pass through the loop body did
    info,            \* st.info(...) shown by the current run
    files,           \* the working directory: file name -> content
    \* ---- one call of get_field_info (lines 233-316) ----
    gfi_pc, gfi_arg, gfi_field, gfi_ids, gfi_i, data_out, gfi_requests,
    gfi_response, gfi_ret,
    \* ---- one call of study_search (lines 193-231) ----
    ss_pc,           \* "idle", "called", "returned" or "raised"
    ss_kwargs,       \* the keyword arguments of the call
    ss_params,       \* params of the request of line 206
    ss_response,     \* what the search endpoint answered
    ss_ret,          \* the value returned
    \* ---- calls of save_csv (lines 182-191) ----
    csv_calls,       \* number of calls made
    csv_kwargs,      \* the keyword arguments of the last call
    csv_saved,       \* file name -> text of the last call that returned "Saved to:"
    csv_ret          \* the value the last call returned

chatVars == <<messages, pc, openai_api_key, choice, response, turns, turnStart,
              rounds, turnCalls, invocations, llmCalls, llmCallsTurn, llmInput,
              lastDispatch, info, files>>
gfiVars == <<gfi_pc, gfi_arg, gfi_field, gfi_ids, gfi_i, data_out,
             gfi_requests, gfi_response, gfi_ret>>
searchVars == <<ss_pc, ss_kwargs, ss_params, ss_response, ss_ret>>
csvVars == <<csv_calls, csv_kwargs, csv_saved, csv_ret>>
toolVars == <<searchVars, csvVars>>
vars == <<chatVars, gfiVars, toolVars>>

----------------------------------------------------------------------------
(* Bounds *)
MaxIdLen == 3      \* longest nct_ids argument, in characters
MaxTurns == 2      \* submitted inputs per session
MaxRounds == 2     \* function-call responses per session
MaxLiveTurns == 1  \* submitted inputs per session under SpecLive

----------------------------------------------------------------------------
(* Python values *)
PyNone == [t |-> "none"]
PyStr(s) == [t |-> "str", s |-> s]
PyInt(n) == [t |-> "int", n |-> n]
PyList(e) == [t |-> "list", e |-> e]
PyDict(m) == [t |-> "dict", m |-> m]

EmptyMap == [k \in {} |-> PyNone]

\* d[k] = v on a Python dict
DictSet(d, k, v) == [x \in (DOMAIN d) \cup {k} |-> IF x = k THEN v ELSE d[x]]

\* v[p[1]][p[2]]...: ok is FALSE where Python raises KeyError (missing key)
\* or TypeError (subscripting a str, list, int or None with a str)
RECURSIVE Lookup(_, _)
Lookup(v, p) ==
    IF p = <<>> THEN [ok |-> TRUE, v |-> v]
    ELSE IF v.t = "dict" /\ Head(p) \in DOMAIN v.m
         THEN Lookup(v.m[Head(p)], Tail(p))
         ELSE [ok |-> FALSE, v |-> PyNone]

----------------------------------------------------------------------------
(* str.replace(" ", "") and str.split(",") on a sequence of characters *)
RECURSIVE Join(_)
Join(cs) == IF cs = <<>> THEN "" ELSE Head(cs) \o Join(Tail(cs))

RECURSIVE RemoveSpaces(_)
RemoveSpaces(cs) ==
    IF cs = <<>> THEN <<>>
    ELSE IF Head(cs) = " " THEN RemoveSpaces(Tail(cs))
         ELSE <<Head(cs)>> \o RemoveSpaces(Tail(cs))

\* split(","): the items between the commas, empty items included
RECURSIVE SplitAcc(_, _)
SplitAcc(cs, cur) ==
    IF cs = <<>> THEN <<Join(cur)>>
    ELSE IF Head(cs) = "," THEN <<Join(cur)>> \o SplitAcc(Tail(cs), <<>>)
         ELSE SplitAcc(Tail(cs), Append(cur, Head(cs)))

SplitIds(cs) == SplitAcc(RemoveSpaces(cs), <<>>)

----------------------------------------------------------------------------
(* get_field_info: the field dispatch of lines 254-310 *)
RecognizedFields ==
    {"interventionAlone", "studyArmsInterventions", "patientConditions",
     "studySummary", "studyDesign", "patientEligibility", "organizations",
     "primaryOutcomes", "secondaryOutcomes", "references", "statusDates"}

\* the subscripts applied to data in the try block of each branch
FieldPath(f) ==
    CASE f = "interventionAlone" ->
            <<"derivedSection", "interventionBrowseModule", "browseLeaves">>
      [] f = "studyArmsInterventions" ->
            <<"protocolSection", "armsInterventionsModule", "armGroups">>
      [] f = "patientConditions" ->
            <<"protocolSection", "conditionsModule", "conditions">>
      [] f = "studySummary" ->
            <<"protocolSection", "descriptionModule", "briefSummary">>
      [] f = "studyDesign" -> <<"protocolSection", "designModule">>
      [] f = "patientEligibility" -> <<"protocolSection", "eligibilityModule">>
      [] f = "organizations" ->
            <<"protocolSection", "sponsorsCollaboratorsModule">>
      [] f = "primaryOutcomes" ->
            <<"protocolSection", "outcomesModule", "primaryOutcomes">>
      [] f = "secondaryOutcomes" ->
            <<"protocolSection", "outcomesModule", "secondaryOutcomes">>
      [] f = "references" ->
            <<"protocolSection", "referencesModule", "references">>
      [] f = "statusDates" -> <<"protocolSection", "statusModule">>

\* the string assigned in the except block of each branch
FieldFallback(f) ==
    CASE f = "interventionAlone" -> "No interventions found"
      [] f = "studyArmsInterventions" -> "No arms or interventions found"
      [] f = "patientConditions" -> "No conditions found"
      [] f = "studySummary" -> "No brief summary found"
      [] f = "studyDesign" -> "No study design found"
      [] f = "patientEligibility" -> "No eligibility criteria found"
      [] f = "organizations" -> "No organizations found"
      [] f = "primaryOutcomes" -> "No primary outcomes found"
      [] f = "secondaryOutcomes" -> "No secondary outcomes found"
      [] f = "references" -> "No references found"
      [] f = "statusDates" -> "No status dates found"

\* the field names written out in the message of line 310, in its order
ValidFieldsNamed ==
    <<"studyArmsInterventions", "patientConditions", "studySummary",
      "studyDesign", "patientEligibility", "organizations", "primaryOutcomes",
      "secondaryOutcomes", "references", "statusDates">>

RECURSIVE JoinComma(_)
JoinComma(names) ==
    IF names = <<>> THEN ""
    ELSE IF Len(names) = 1 THEN Head(names)
    ELSE Head(names) \o ", " \o JoinComma(Tail(names))

\* the else branch, line 310
InvalidFieldMessage(f) ==
    "Field " \o f \o " is not a valid field. Valid fields are: "
    \o JoinComma(ValidFieldsNamed) \o "."

\* line 312 and line 231
StatusError(code) == "Request failed with status code " \o ToString(code)

\* the last elif written as a plain else: an unrecognized name is served by
\* the statusDates branch
ExtractField_lastelse(data, f) ==
    LET g == IF f \in RecognizedFields THEN f ELSE "statusDates"
        r == Lookup(data, FieldPath(g))
    IN IF r.ok THEN r.v ELSE PyStr(FieldFallback(g))

\* the path read with chained .get(): a missing path yields None
ExtractField_get(data, f) ==
    IF f \in RecognizedFields
    THEN LET r == Lookup(data, FieldPath(f))
         IN IF r.ok THEN r.v ELSE PyNone
    ELSE PyStr(InvalidFieldMessage(f))

\* lines 254-310: temp_output for a record fetched with status 200
ExtractField(data, f) ==
    IF f \in RecognizedFields
    THEN LET r == Lookup(data, FieldPath(f))
         IN IF r.ok THEN r.v ELSE PyStr(FieldFallback(f))
    ELSE PyStr(InvalidFieldMessage(f))

\* lines 251-312: temp_output for a response that was received
TempOutput(resp, f) ==
    IF resp.status_code = 200
    THEN ExtractField(resp.body.data, f)
    ELSE PyStr(StatusError(resp.status_code))

\* response.raise_for_status() added after the request
ResponseRaises_strict(resp) ==
    \/ resp.kind = "raise"
    \/ resp.kind = "http" /\ resp.status_code # 200
    \/ resp.kind = "http" /\ ~resp.body.valid

\* requests.get raised, or response.json() raised on a 200 body that is not JSON
ResponseRaises(resp) ==
    \/ resp.kind = "raise"
    \/ resp.kind = "http" /\ resp.status_code = 200 /\ ~resp.body.valid

ResponseExc(resp) ==
    IF resp.kind = "raise" THEN resp.exc
    ELSE "Expecting value: line 1 column 1 (char 0)"

\* line 248
RecordUrl(nct_id) == "https://www.clinicaltrials.gov/api/v2/studies/" \o nct_id

\* lines 239-244: data_out before the request loop
RECURSIVE InitKeys(_, _)
InitKeys(d, ids) ==
    IF ids = <<>> THEN d
    ELSE InitKeys(DictSet(d, Head(ids), PyNone), Tail(ids))

InitDataOut(ids, f) ==
    InitKeys(("nct_ids" :> PyList([i \in 1..Len(ids) |-> PyStr(ids[i])]))
             @@ ("field" :> PyStr(f)), ids)

\* lines 246-316 as a function of the responses, resps[i] answering ids[i]:
\* the value returned, or the exception that leaves get_field_info
RECURSIVE RequestLoop(_, _, _, _)
RequestLoop(d, ids, f, resps) ==
    IF ids = <<>> THEN [raised |-> FALSE, value |-> PyDict(d), exc |-> ""]
    ELSE IF ResponseRaises(Head(resps))
         THEN [raised |-> TRUE, value |-> PyNone, exc |-> ResponseExc(Head(resps))]
         ELSE RequestLoop(DictSet(d, Head(ids), TempOutput(Head(resps), f)),
                          Tail(ids), f, Tail(resps))

get_field_info(nct_ids, f, resps) ==
    LET ids == SplitIds(nct_ids)
    IN RequestLoop(InitDataOut(ids, f), ids, f, resps)

----------------------------------------------------------------------------
(* The record endpoint: documents and responses the service can send *)
FullDoc ==
    PyDict(
      ("protocolSection" :> PyDict(
          ("identificationModule" :> PyDict(("nctId" :> PyStr("NCT1"))
                                     @@ ("briefTitle" :> PyStr("title"))))
       @@ ("armsInterventionsModule" :>
              PyDict("armGroups" :> PyList(<<PyStr("arm")>>)))
       @@ ("conditionsModule" :>
              PyDict("conditions" :> PyList(<<PyStr("condition")>>)))
       @@ ("descriptionModule" :>
              PyDict("briefSummary" :> PyStr("summary")))
       @@ ("designModule" :> PyDict("studyType" :> PyStr("type")))
       @@ ("eligibilityModule" :> PyDict("sex" :> PyStr("ALL")))
       @@ ("sponsorsCollaboratorsModule" :>
              PyDict("leadSponsor" :> PyStr("sponsor")))
       @@ ("outcomesModule" :>
              PyDict(("primaryOutcomes" :> PyList(<<PyStr("primary")>>))
                  @@ ("secondaryOutcomes" :> PyList(<<PyStr("secondary")>>))))
       @@ ("referencesModule" :>
              PyDict("references" :> PyList(<<PyStr("reference")>>)))
       @@ ("statusModule" :> PyDict("overallStatus" :> PyStr("status")))))
      @@
      ("derivedSection" :> PyDict(
          "interventionBrowseModule" :>
              PyDict("browseLeaves" :> PyList(<<PyStr("leaf")>>)))))

\* v with the key at the end of path p deleted
RECURSIVE DelPath(_, _)
DelPath(v, p) ==
    IF v.t # "dict" \/ Head(p) \notin DOMAIN v.m THEN v
    ELSE IF Len(p) = 1
         THEN PyDict([k \in (DOMAIN v.m) \ {Head(p)} |-> v.m[k]])
         ELSE PyDict([v.m EXCEPT ![Head(p)] = DelPath(@, Tail(p))])

\* v with the value at path p replaced by w
RECURSIVE SetPath(_, _, _)
SetPath(v, p, w) ==
    IF p = <<>> THEN w
    ELSE IF v.t # "dict" \/ Head(p) \notin DOMAIN v.m THEN v
         ELSE PyDict([v.m EXCEPT ![Head(p)] = SetPath(@, Tail(p), w)])

\* the full record, and the full record broken at each level of each path:
\* a key of the path deleted, or a value above the end of the path not an object
Docs ==
    {FullDoc, PyDict(EmptyMap)}
    \cup UNION {{DelPath(FullDoc, SubSeq(FieldPath(f), 1, d)) :
                    d \in 1..Len(FieldPath(f))} : f \in RecognizedFields}
    \cup UNION {{SetPath(FullDoc, SubSeq(FieldPath(f), 1, d), PyStr("text")) :
                    d \in 0..(Len(FieldPath(f)) - 1)} : f \in RecognizedFields}
    \cup {PyList(<<>>), PyNone}

NonOkStatus == {400, 404}

HttpOk(doc) == [kind |-> "http", status_code |-> 200,
                body |-> [valid |-> TRUE, data |-> doc], exc |-> ""]
HttpNotJson == [kind |-> "http", status_code |-> 200,
                body |-> [valid |-> FALSE, data |-> PyNone], exc |-> ""]
HttpStatus(code) == [kind |-> "http", status_code |-> code,
                     body |-> [valid |-> FALSE, data |-> PyNone], exc |-> ""]
RequestsRaise == [kind |-> "raise", status_code |-> 0,
                  body |-> [valid |-> FALSE, data |-> PyNone],
                  exc |-> "ConnectionError"]

RecordResponses ==
    {HttpOk(doc) : doc \in Docs} \cup {HttpStatus(c) : c \in NonOkStatus}
    \cup {HttpNotJson, RequestsRaise}

NoResponse == [kind |-> "none", status_code |-> 0,
               body |-> [valid |-> FALSE, data |-> PyNone], exc |-> ""]

----------------------------------------------------------------------------
(* Inputs of get_field_info *)
IdChars == {"A", "B", ",", " "}

RECURSIVE CharSeqs(_)
CharSeqs(n) ==
    IF n = 0 THEN {<<>>}
    ELSE CharSeqs(n - 1)
         \cup {Append(cs, c) : cs \in {x \in CharSeqs(n - 1) : Len(x) = n - 1},
                               c \in IdChars}

IdArgs == CharSeqs(MaxIdLen)

FieldArgs == RecognizedFields \cup {"officialTitle", "InterventionAlone"}

----------------------------------------------------------------------------
(* study_search, lines 193-231 *)
TitlePath == <<"protocolSection", "identificationModule", "briefTitle">>
NctIdPath == <<"protocolSection", "identificationModule", "nctId">>

\* lines 217-219: every study has both values
StudiesReadable(studies) ==
    \A i \in 1..Len(studies) :
        Lookup(studies[i], TitlePath).ok /\ Lookup(studies[i], NctIdPath).ok

\* the count taken from the page size asked for instead of the studies read
SearchSummary_pagesize(query_term, pageSize, studies) ==
    PyDict(("Query Term" :> query_term)
        @@ ("Page Size" :> pageSize)
        @@ ("Number of Results" :> pageSize)
        @@ ("Study Name" :>
               PyList([i \in 1..Len(studies) |-> Lookup(studies[i], TitlePath).v]))
        @@ ("NCT_ID" :>
               PyList([i \in 1..Len(studies) |-> Lookup(studies[i], NctIdPath).v])))

\* lines 221-227
SearchSummary(query_term, pageSize, studies) ==
    PyDict(("Query Term" :> query_term)
        @@ ("Page Size" :> pageSize)
        @@ ("Number of Results" :> PyInt(Len(studies)))
        @@ ("Study Name" :>
               PyList([i \in 1..Len(studies) |-> Lookup(studies[i], TitlePath).v]))
        @@ ("NCT_ID" :>
               PyList([i \in 1..Len(studies) |-> Lookup(studies[i], NctIdPath).v])))

\* the value iterated by the for loop of line 217, when it can be iterated
\* and its items subscripted: a list; an empty dict or str gives no pass
StudyList(v) ==
    IF v.t = "list" THEN [ok |-> TRUE, e |-> v.e]
    ELSE IF v = PyDict(EmptyMap) \/ v = PyStr("") THEN [ok |-> TRUE, e |-> <<>>]
    ELSE [ok |-> FALSE, e |-> <<>>]

\* raise_for_status() in place of the else branch of lines 230-231
study_search_raise_for_status(query_term, pageSize, resp) ==
    IF ResponseRaises(resp)
    THEN [raised |-> TRUE, value |-> PyNone, exc |-> ResponseExc(resp)]
    ELSE IF resp.status_code = 200
    THEN LET sd == Lookup(resp.body.data, <<"studies">>)
             l == StudyList(sd.v)
         IN IF ~sd.ok
            THEN [raised |-> TRUE, value |-> PyNone, exc |-> "'studies'"]
            ELSE IF ~l.ok \/ ~StudiesReadable(l.e)
            THEN [raised |-> TRUE, value |-> PyNone, exc |-> "'protocolSection'"]
            ELSE [raised |-> FALSE, exc |-> "",
                  value |-> SearchSummary(query_term, pageSize, l.e)]
    ELSE [raised |-> TRUE, value |-> PyNone, exc |-> "HTTPError"]

study_search(query_term, pageSize, resp) ==
    IF ResponseRaises(resp)
    THEN [raised |-> TRUE, value |-> PyNone, exc |-> ResponseExc(resp)]
    ELSE IF resp.status_code = 200
    THEN LET sd == Lookup(resp.body.data, <<"studies">>)
             l == StudyList(sd.v)
         IN IF ~sd.ok
            THEN [raised |-> TRUE, value |-> PyNone, exc |-> "'studies'"]
            ELSE IF ~l.ok \/ ~StudiesReadable(l.e)
            THEN [raised |-> TRUE, value |-> PyNone, exc |-> "'protocolSection'"]
            ELSE [raised |-> FALSE, exc |-> "",
                  value |-> SearchSummary(query_term, pageSize, l.e)]
    ELSE [raised |-> FALSE, value |-> PyStr(StatusError(resp.status_code)),
          exc |-> ""]

Study(i) ==
    PyDict("protocolSection" :> PyDict("identificationModule" :>
        PyDict(("briefTitle" :> PyStr("title " \o ToString(i)))
            @@ ("nctId" :> PyStr("NCT" \o ToString(i))))))

SearchDoc(n) == PyDict("studies" :> PyList([i \in 1..n |-> Study(i)]))

----------------------------------------------------------------------------
(* save_csv, lines 182-191 *)
Cwd == "/srv/app"

\* env.openFails: open(..., 'w') raises (permission denied, invalid name).
\* open(..., 'w') truncates the file before write(text) is evaluated.
save_csv(text, title, fs, env) ==
    IF title.t # "str"
    THEN [raised |-> FALSE, exc |-> "", files |-> fs,
          value |-> PyStr("Error saving file: unsupported operand type(s) for +")]
    ELSE LET name == title.s \o ".csv"
         IN IF env.openFails
            THEN [raised |-> FALSE, exc |-> "", files |-> fs,
                  value |-> PyStr("Error saving file: [Errno 13] Permission denied: '"
                                  \o name \o "'")]
            ELSE IF text.t # "str"
            THEN [raised |-> FALSE, exc |-> "",
                  files |-> [n \in (DOMAIN fs) \cup {name} |->
                                IF n = name THEN "" ELSE fs[n]],
                  value |-> PyStr("Error saving file: write() argument must be str")]
            ELSE [raised |-> FALSE, exc |-> "",
                  files |-> [n \in (DOMAIN fs) \cup {name} |->
                                IF n = name THEN text.s ELSE fs[n]],
                  value |-> PyStr("Saved to:" \o Cwd \o "/" \o name)]

----------------------------------------------------------------------------
(* The Function Registry, lines 175-180, and the call of line 389 *)
function_map == {"study_search", "get_field_info", "save_csv"}

Params(name) ==
    CASE name = "study_search" -> {"query_term", "pageSize"}
      [] name = "get_field_info" -> {"nct_ids", "field"}
      [] name = "save_csv" -> {"text", "title"}

\* parameters without a default value
Required(name) == IF name = "get_field_info" THEN {"nct_ids", "field"} ELSE {}

Default(name, param) ==
    IF name = "study_search" /\ param = "pageSize" THEN PyInt(10) ELSE PyNone

Arg(name, kwargs, param) ==
    IF param \in DOMAIN kwargs THEN kwargs[param] ELSE Default(name, param)

Raised(text, fs) == [raised |-> TRUE, value |-> PyNone, exc |-> text, files |-> fs]

\* function_to_call(**function_args): binding, then the handler body.
\* env holds what the outside world answers during the call.
CallHandler(name, function_args, env, fs) ==
    IF function_args.t # "dict"
    THEN Raised("argument after ** must be a mapping", fs)
    ELSE IF ~((DOMAIN function_args.m) \subseteq Params(name))
    THEN Raised(name \o "() got an unexpected keyword argument", fs)
    ELSE IF ~(Required(name) \subseteq DOMAIN function_args.m)
    THEN Raised(name \o "() missing required positional arguments", fs)
    ELSE LET kw == function_args.m
         IN CASE name = "study_search" ->
                   LET r == study_search(Arg(name, kw, "query_term"),
                                         Arg(name, kw, "pageSize"), env.search)
                   IN [raised |-> r.raised, value |-> r.value, exc |-> r.exc,
                       files |-> fs]
              [] name = "get_field_info" ->
                   IF "chars" \notin DOMAIN kw["nct_ids"]
                   THEN Raised("object has no attribute 'replace'", fs)
                   ELSE LET r == get_field_info(kw["nct_ids"].chars,
                                                kw["field"].s, env.records)
                        IN [raised |-> r.raised, value |-> r.value,
                            exc |-> r.exc, files |-> fs]
              [] name = "save_csv" ->
                   save_csv(Arg(name, kw, "text"), Arg(name, kw, "title"), fs, env)

----------------------------------------------------------------------------
(* The chat loop before any input, lines 340-343 *)
Msg(role, name, content) == [role |-> role, name |-> name, content |-> content]
\* ChatMessage(role=..., content=...)
ChatMessage(role, content) == Msg(role, "", content)
\* FunctionMessage(name=..., content=...)
FunctionMessage(name, content) == Msg("function", name, content)

NoLlmResponse == [kind |-> "none", content |-> "", name |-> "", arguments |-> ""]
NoDispatch == [name |-> "", outcome |-> "none", exc |-> ""]

ChatInit ==
    /\ messages = <<ChatMessage("assistant", PyStr("How can I help you?"))>>
    /\ pc = "awaiting_user_input"
    /\ openai_api_key \in BOOLEAN
    /\ choice = "None"
    /\ response = NoLlmResponse
    /\ turns = 0
    /\ turnStart = 1
    /\ rounds = 0
    /\ turnCalls = <<>>
    /\ invocations = 0
    /\ llmCalls = 0
    /\ llmCallsTurn = 0
    /\ llmInput = <<>>
    /\ lastDispatch = NoDispatch
    /\ info = FALSE
    /\ files = [n \in {} |-> ""]

GfiIdle ==
    /\ gfi_pc = "idle"
    /\ gfi_arg = <<>>
    /\ gfi_field = ""
    /\ gfi_ids = <<>>
    /\ gfi_i = 0
    /\ data_out = EmptyMap
    /\ gfi_requests = <<>>
    /\ gfi_response = NoResponse
    /\ gfi_ret = PyNone

NoFiles == [n \in {} |-> ""]

SearchIdle ==
    /\ ss_pc = "idle"
    /\ ss_kwargs = EmptyMap
    /\ ss_params = EmptyMap
    /\ ss_response = NoResponse
    /\ ss_ret = PyNone

CsvIdle ==
    /\ csv_calls = 0
    /\ csv_kwargs = EmptyMap
    /\ csv_saved = NoFiles
    /\ csv_ret = PyNone

ToolsIdle == SearchIdle /\ CsvIdle

----------------------------------------------------------------------------
(* What the LLM and the user can send *)
\* the n-th input of the session
Prompt(n) == "prompt " \o ToString(n)
Texts == {"Here are the trials.", "No trials found."}

\* a str argument that get_field_info takes apart character by character
PyChars(cs) == [t |-> "str", s |-> Join(cs), chars |-> cs]

ArgsQuery == "{\"query_term\": \"cancer\"}"
ArgsField == "{\"nct_ids\": \"A\", \"field\": \"studySummary\"}"
ArgsCsv == "{\"text\": \"a,b\", \"title\": \"out\"}"
ArgsList == "[\"cancer\"]"
ArgsCut == "{\"query_term\": \"canc"

\* json.loads on the argument texts above
JsonLoads(text) ==
    CASE text = ArgsQuery ->
            [ok |-> TRUE, v |-> PyDict("query_term" :> PyStr("cancer"))]
      [] text = ArgsField ->
            [ok |-> TRUE, v |-> PyDict(("nct_ids" :> PyChars(<<"A">>))
                                    @@ ("field" :> PyStr("studySummary")))]
      [] text = ArgsCsv ->
            [ok |-> TRUE, v |-> PyDict(("text" :> PyStr("a,b"))
                                    @@ ("title" :> PyStr("out")))]
      [] text = ArgsList ->
            [ok |-> TRUE, v |-> PyList(<<PyStr("cancer")>>)]
      [] text = ArgsCut -> [ok |-> FALSE, v |-> PyNone]

FunctionCall(name, arguments) ==
    [kind |-> "function_call", content |-> "", name |-> name,
     arguments |-> arguments]
TextResponse(content) ==
    [kind |-> "text", content |-> content, name |-> "", arguments |-> ""]

\* the function-call requests the LLM issues
FunctionCalls ==
    {FunctionCall("study_search", ArgsQuery),
     FunctionCall("get_field_info", ArgsField),
     FunctionCall("save_csv", ArgsCsv),
     FunctionCall("get_field_info", ArgsQuery),
     FunctionCall("save_csv", ArgsList),
     FunctionCall("study_search", ArgsCut),
     FunctionCall("get_study", ArgsQuery)}

\* what the outside world answers during one handler call
Env(search, records, openFails) ==
    [search |-> search, records |-> records, openFails |-> openFails]

Envs(name) ==
    CASE name = "study_search" ->
            {Env(r, <<>>, FALSE) : r \in {HttpOk(SearchDoc(2)), HttpStatus(400)}}
      [] name = "get_field_info" ->
            {Env(NoResponse, <<r>>, FALSE) : r \in {HttpOk(FullDoc), RequestsRaise}}
      [] name = "save_csv" -> {Env(NoResponse, <<>>, FALSE)}
      [] OTHER -> {Env(NoResponse, <<>>, FALSE)}

----------------------------------------------------------------------------
(* The chat loop, lines 351-400 *)

\* line 384
FormatCall(function_name, function_args) ==
    [t |-> "str",
     s |-> "Calling function " \o function_name \o " with arguments: {}",
     fmt |-> function_args]

\* json.dumps(v): the str that serializes v
JsonDumps(v) == [t |-> "str", json |-> v]

\* the except block without the exception text
TryCall_notext(name, function_args, env, fs) ==
    LET r == CallHandler(name, function_args, env, fs)
    IN [function_response |->
            IF r.raised THEN PyStr("Function call failed") ELSE r.value,
        files |-> r.files,
        outcome |-> IF r.raised THEN "raised" ELSE "returned",
        exc |-> r.exc]

\* lines 388-391
TryCall(name, function_args, env, fs) ==
    LET r == CallHandler(name, function_args, env, fs)
    IN [function_response |->
            IF r.raised
            THEN PyStr("Function call failed with error: " \o r.exc)
            ELSE r.value,
        files |-> r.files,
        outcome |-> IF r.raised THEN "raised" ELSE "returned",
        exc |-> r.exc]

\* the notice appended after the result instead of before the call
RoundMessages_swapped(function_name, function_args, function_response) ==
    <<FunctionMessage(function_name, JsonDumps(function_response)),
      ChatMessage("system", FormatCall(function_name, function_args))>>

\* the result of the call not appended
RoundMessages_noresult(function_name, function_args, function_response) ==
    <<ChatMessage("system", FormatCall(function_name, function_args))>>

\* lines 386 and 395-396: the messages one pass of the loop body appends
RoundMessages(function_name, function_args, function_response) ==
    <<ChatMessage("system", FormatCall(function_name, function_args)),
      FunctionMessage(function_name, JsonDumps(function_response))>>

\* the history initialised on every run (no test of line 340)
Submit_reinit(ch) ==
    /\ pc \in {"awaiting_user_input", "done", "stopped", "crashed"}
    /\ turns < MaxTurns
    /\ turns' = turns + 1
    /\ choice' = ch
    /\ turnStart' = Len(messages)
    /\ messages' = <<messages[1], ChatMessage("user", PyStr(Prompt(turns + 1)))>>
    /\ IF ~openai_api_key
       THEN /\ info' = TRUE
            /\ pc' = "stopped"
       ELSE /\ info' = FALSE
            /\ pc' = "awaiting_llm_response"
    /\ response' = NoLlmResponse
    /\ turnCalls' = <<>>
    /\ invocations' = 0
    /\ llmCallsTurn' = 0
    /\ lastDispatch' = NoDispatch
    /\ UNCHANGED <<openai_api_key, rounds, llmCalls, llmInput, files>>
    /\ UNCHANGED <<gfiVars, toolVars>>

\* the credential test of line 355 left out
Submit_nocheck(ch) ==
    /\ pc \in {"awaiting_user_input", "done", "stopped", "crashed"}
    /\ turns < MaxTurns
    /\ turns' = turns + 1
    /\ choice' = ch
    /\ turnStart' = Len(messages)
    /\ messages' = Append(messages, ChatMessage("user", PyStr(Prompt(turns + 1))))
    /\ info' = FALSE
    /\ pc' = "awaiting_llm_response"
    /\ response' = NoLlmResponse
    /\ turnCalls' = <<>>
    /\ invocations' = 0
    /\ llmCallsTurn' = 0
    /\ lastDispatch' = NoDispatch
    /\ UNCHANGED <<openai_api_key, rounds, llmCalls, llmInput, files>>
    /\ UNCHANGED <<gfiVars, toolVars>>

\* the credential tested before the user message is appended
Submit_checkfirst(ch) ==
    /\ pc \in {"awaiting_user_input", "done", "stopped", "crashed"}
    /\ turns < MaxTurns
    /\ turns' = turns + 1
    /\ choice' = ch
    /\ turnStart' = Len(messages)
    /\ messages' = IF ~openai_api_key THEN messages
                   ELSE Append(messages,
                               ChatMessage("user", PyStr(Prompt(turns + 1))))
    /\ IF ~openai_api_key
       THEN /\ info' = TRUE
            /\ pc' = "stopped"
       ELSE /\ info' = FALSE
            /\ pc' = "awaiting_llm_response"
    /\ response' = NoLlmResponse
    /\ turnCalls' = <<>>
    /\ invocations' = 0
    /\ llmCallsTurn' = 0
    /\ lastDispatch' = NoDispatch
    /\ UNCHANGED <<openai_api_key, rounds, llmCalls, llmInput, files>>
    /\ UNCHANGED <<gfiVars, toolVars>>

\* lines 351-357: a prompt is submitted; ch is the sidebar choice of the run
Submit(ch) ==
    /\ pc \in {"awaiting_user_input", "done", "stopped", "crashed"}
    /\ turns < MaxTurns
    /\ turns' = turns + 1
    /\ choice' = ch
    /\ turnStart' = Len(messages)
    /\ messages' = Append(messages, ChatMessage("user", PyStr(Prompt(turns + 1))))
    /\ IF ~openai_api_key
       THEN /\ info' = TRUE
            /\ pc' = "stopped"
       ELSE /\ info' = FALSE
            /\ pc' = "awaiting_llm_response"
    /\ response' = NoLlmResponse
    /\ turnCalls' = <<>>
    /\ invocations' = 0
    /\ llmCallsTurn' = 0
    /\ lastDispatch' = NoDispatch
    /\ UNCHANGED <<openai_api_key, rounds, llmCalls, llmInput, files>>
    /\ UNCHANGED <<gfiVars, toolVars>>

\* lines 373 and 398: llm(st.session_state.messages) completes with r
LlmCompletes(r) ==
    /\ pc = "awaiting_llm_response"
    /\ llmInput' = messages
    /\ llmCalls' = llmCalls + 1
    /\ llmCallsTurn' = llmCallsTurn + 1
    /\ response' = r
    /\ UNCHANGED <<messages, openai_api_key, choice, turns, turnStart,
                   invocations, lastDispatch, info, files>>
    /\ UNCHANGED <<gfiVars, toolVars>>

\* the while test of line 376 fails
LlmReturnsText ==
    \E t \in Texts :
        /\ LlmCompletes(TextResponse(t))
        /\ pc' = "appending_text"
        /\ UNCHANGED <<rounds, turnCalls>>

\* the while test of line 376 holds; functions are offered to the model
\* only when a plugin is chosen (lines 365-372)
LlmReturnsFunctionCall ==
    \E fc \in FunctionCalls :
        /\ choice # "None"
        /\ rounds < MaxRounds
        /\ LlmCompletes(fc)
        /\ pc' = "dispatching_function"
        /\ rounds' = rounds + 1
        /\ turnCalls' = Append(turnCalls, fc)

\* llm(...) raises (network or provider error): nothing catches it
LlmRaises ==
    /\ pc = "awaiting_llm_response"
    /\ llmInput' = messages
    /\ llmCalls' = llmCalls + 1
    /\ llmCallsTurn' = llmCallsTurn + 1
    /\ pc' = "crashed"
    /\ UNCHANGED <<messages, openai_api_key, choice, response, turns, turnStart,
                   rounds, turnCalls, invocations, lastDispatch, info, files>>
    /\ UNCHANGED <<gfiVars, toolVars>>

\* a handler that raised is called a second time before the result is kept
Dispatch_retry ==
    /\ pc = "dispatching_function"
    /\ LET function_name == response.name
           parsed == JsonLoads(response.arguments)
       IN IF function_name \notin function_map
          THEN \* line 379: KeyError
               /\ pc' = "crashed"
               /\ lastDispatch' = [name |-> function_name, outcome |-> "KeyError",
                                   exc |-> function_name]
               /\ UNCHANGED <<messages, invocations, files>>
          ELSE IF ~parsed.ok
          THEN \* line 380: json.JSONDecodeError
               /\ pc' = "crashed"
               /\ lastDispatch' = [name |-> function_name,
                                   outcome |-> "JSONDecodeError",
                                   exc |-> "Unterminated string"]
               /\ UNCHANGED <<messages, invocations, files>>
          ELSE \E env \in Envs(function_name) :
                 LET c == TryCall(function_name, parsed.v, env, files)
                 IN /\ messages' = messages \o
                          RoundMessages(function_name, parsed.v, c.function_response)
                    /\ invocations' =
                          invocations + (IF c.outcome = "raised" THEN 2 ELSE 1)
                    /\ files' = c.files
                    /\ lastDispatch' = [name |-> function_name,
                                        outcome |-> c.outcome, exc |-> c.exc]
                    /\ pc' = "awaiting_llm_response"
    /\ UNCHANGED <<openai_api_key, choice, response, turns, turnStart, rounds,
                   turnCalls, llmCalls, llmCallsTurn, llmInput, info>>
    /\ UNCHANGED <<gfiVars, toolVars>>

\* the loop left after one pass, whatever the LLM asked for
Dispatch_capped ==
    /\ pc = "dispatching_function"
    /\ LET function_name == response.name
           parsed == JsonLoads(response.arguments)
       IN IF invocations >= 1
          THEN /\ pc' = "appending_text"
               /\ lastDispatch' = [name |-> function_name, outcome |-> "none",
                                   exc |-> ""]
               /\ UNCHANGED <<messages, invocations, files>>
          ELSE IF function_name \notin function_map
          THEN \* line 379: KeyError
               /\ pc' = "crashed"
               /\ lastDispatch' = [name |-> function_name, outcome |-> "KeyError",
                                   exc |-> function_name]
               /\ UNCHANGED <<messages, invocations, files>>
          ELSE IF ~parsed.ok
          THEN \* line 380: json.JSONDecodeError
               /\ pc' = "crashed"
               /\ lastDispatch' = [name |-> function_name,
                                   outcome |-> "JSONDecodeError",
                                   exc |-> "Unterminated string"]
               /\ UNCHANGED <<messages, invocations, files>>
          ELSE \E env \in Envs(function_name) :
                 LET c == TryCall(function_name, parsed.v, env, files)
                 IN /\ messages' = messages \o
                          RoundMessages(function_name, parsed.v, c.function_response)
                    /\ invocations' = invocations + 1
                    /\ files' = c.files
                    /\ lastDispatch' = [name |-> function_name,
                                        outcome |-> c.outcome, exc |-> c.exc]
                    /\ pc' = "awaiting_llm_response"
    /\ UNCHANGED <<openai_api_key, choice, response, turns, turnStart, rounds,
                   turnCalls, llmCalls, llmCallsTurn, llmInput, info>>
    /\ UNCHANGED <<gfiVars, toolVars>>

\* lines 378-396: one pass of the loop body
Dispatch ==
    /\ pc = "dispatching_function"
    /\ LET function_name == response.name
           parsed == JsonLoads(response.arguments)
       IN IF function_name \notin function_map
          THEN \* line 379: KeyError
               /\ pc' = "crashed"
               /\ lastDispatch' = [name |-> function_name, outcome |-> "KeyError",
                                   exc |-> function_name]
               /\ UNCHANGED <<messages, invocations, files>>
          ELSE IF ~parsed.ok
          THEN \* line 380: json.JSONDecodeError
               /\ pc' = "crashed"
               /\ lastDispatch' = [name |-> function_name,
                                   outcome |-> "JSONDecodeError",
                                   exc |-> "Unterminated string"]
               /\ UNCHANGED <<messages, invocations, files>>
          ELSE \E env \in Envs(function_name) :
                 LET c == TryCall(function_name, parsed.v, env, files)
                 IN /\ messages' = messages \o
                          RoundMessages(function_name, parsed.v, c.function_response)
                    /\ invocations' = invocations + 1
                    /\ files' = c.files
                    /\ lastDispatch' = [name |-> function_name,
                                        outcome |-> c.outcome, exc |-> c.exc]
                    /\ pc' = "awaiting_llm_response"
    /\ UNCHANGED <<openai_api_key, choice, response, turns, turnStart, rounds,
                   turnCalls, llmCalls, llmCallsTurn, llmInput, info>>
    /\ UNCHANGED <<gfiVars, toolVars>>

\* the assistant message appended with the content of a fresh, empty reply
AppendAssistant_empty ==
    /\ pc = "appending_text"
    /\ messages' = Append(messages, ChatMessage("assistant", PyStr("")))
    /\ pc' = "done"
    /\ UNCHANGED <<openai_api_key, choice, response, turns, turnStart, rounds,
                   turnCalls, invocations, llmCalls, llmCallsTurn, llmInput,
                   lastDispatch, info, files>>
    /\ UNCHANGED <<gfiVars, toolVars>>

\* line 400
AppendAssistant ==
    /\ pc = "appending_text"
    /\ messages' = Append(messages,
                          ChatMessage("assistant", PyStr(response.content)))
    /\ pc' = "done"
    /\ UNCHANGED <<openai_api_key, choice, response, turns, turnStart, rounds,
                   turnCalls, invocations, llmCalls, llmCallsTurn, llmInput, lastDispatch,
                   info, files>>
    /\ UNCHANGED <<gfiVars, toolVars>>

Init == ChatInit /\ GfiIdle /\ ToolsIdle

Next ==
    \/ \E ch \in {"None", "Clinical Trials"} : Submit(ch)
    \/ LlmReturnsText
    \/ LlmReturnsFunctionCall
    \/ LlmRaises
    \/ Dispatch
    \/ AppendAssistant

Spec == Init /\ [][Next]_vars

\* Sessions of at most MaxLiveTurns inputs, for the progress properties.
\* The script runs on once the LLM has answered: the loop body and line 400
\* are not left unexecuted.
NextLive ==
    \/ \E ch \in {"None", "Clinical Trials"} :
          turns < MaxLiveTurns /\ Submit(ch)
    \/ LlmReturnsText
    \/ LlmReturnsFunctionCall
    \/ LlmRaises
    \/ Dispatch
    \/ AppendAssistant

SpecLive ==
    Init /\ [][NextLive]_vars /\ WF_vars(Dispatch) /\ WF_vars(AppendAssistant)

----------------------------------------------------------------------------
(* One call of get_field_info, one request per step *)
InitFieldInfo ==
    /\ ChatInit
    /\ ToolsIdle
    /\ openai_api_key
    /\ gfi_pc = "called"
    /\ gfi_arg \in IdArgs
    /\ gfi_field \in FieldArgs
    /\ gfi_ids = <<>>
    /\ gfi_i = 0
    /\ data_out = EmptyMap
    /\ gfi_requests = <<>>
    /\ gfi_response = NoResponse
    /\ gfi_ret = PyNone

\* lines 236-244
GfiSplit ==
    /\ gfi_pc = "called"
    /\ gfi_ids' = SplitIds(gfi_arg)
    /\ data_out' = InitDataOut(gfi_ids', gfi_field)
    /\ gfi_i' = 0
    /\ gfi_pc' = "loop"
    /\ UNCHANGED <<gfi_arg, gfi_field, gfi_requests, gfi_response, gfi_ret>>
    /\ UNCHANGED <<chatVars, toolVars>>

\* lines 246-314, one pass of the loop: the request, then temp_output
GfiRequest ==
    /\ gfi_pc = "loop"
    /\ gfi_i < Len(gfi_ids)
    /\ \E resp \in RecordResponses :
         LET nct_id == gfi_ids[gfi_i + 1]
         IN /\ gfi_response' = resp
            /\ gfi_requests' = Append(gfi_requests,
                                 [url |-> RecordUrl(nct_id),
                                  status_code |-> resp.status_code])
            /\ gfi_i' = gfi_i + 1
            /\ IF ResponseRaises(resp)
               THEN /\ gfi_pc' = "raised"
                    /\ gfi_ret' = PyStr(ResponseExc(resp))
                    /\ UNCHANGED data_out
               ELSE /\ data_out' = DictSet(data_out, nct_id,
                                           TempOutput(resp, gfi_field))
                    /\ UNCHANGED <<gfi_pc, gfi_ret>>
    /\ UNCHANGED <<gfi_arg, gfi_field, gfi_ids>>
    /\ UNCHANGED <<chatVars, toolVars>>

\* line 316
GfiReturn ==
    /\ gfi_pc = "loop"
    /\ gfi_i = Len(gfi_ids)
    /\ gfi_pc' = "returned"
    /\ gfi_ret' = PyDict(data_out)
    /\ UNCHANGED <<gfi_arg, gfi_field, gfi_ids, gfi_i, data_out, gfi_requests,
                   gfi_response>>
    /\ UNCHANGED <<chatVars, toolVars>>

NextFieldInfo == GfiSplit \/ GfiRequest \/ GfiReturn

SpecFieldInfo == InitFieldInfo /\ [][NextFieldInfo]_vars

----------------------------------------------------------------------------
(* Properties of get_field_info, checked under SpecFieldInfo *)

\* request j is the last one made so far for its identifier
IsLastRequest(j) == \A k \in (j + 1)..gfi_i : gfi_ids[k] # gfi_ids[j]

\* request j was answered (it did not raise inside get_field_info)
Answered(j) == ~(gfi_pc = "raised" /\ j = gfi_i)

GfiStarted == gfi_pc \in {"loop", "returned", "raised"}

\* doc has no value at path p: a key is missing or a value on the way is
\* not an object
LacksPath(doc, p) == ~Lookup(doc, p).ok

C8_Batch ==
    GfiStarted =>
      /\ Len(gfi_requests) = gfi_i
      /\ \A j \in 1..gfi_i : gfi_requests[j].url = RecordUrl(gfi_ids[j])
      /\ gfi_pc = "raised" =>
            \/ gfi_response.kind = "raise"
            \/ gfi_response.status_code = 200 /\ ~gfi_response.body.valid
      /\ \A j \in 1..gfi_i :
            (gfi_requests[j].status_code \in NonOkStatus /\ IsLastRequest(j))
            => data_out[gfi_ids[j]] =
                   PyStr(StatusError(gfi_requests[j].status_code))
      /\ gfi_pc = "returned" =>
            /\ gfi_i = Len(gfi_ids)
            /\ gfi_ret.t = "dict"
            /\ \A j \in 1..Len(gfi_ids) :
                  /\ gfi_ids[j] \in DOMAIN gfi_ret.m
                  /\ gfi_ret.m[gfi_ids[j]] # PyNone

C8_Frame ==
    \A k \in DOMAIN data_out :
        (GfiStarted /\ gfi_i' = gfi_i + 1 /\ k # gfi_ids[gfi_i + 1])
        => (k \in DOMAIN data_out' /\ data_out'[k] = data_out[k])

\* C8: get_field_info requests the identifiers in input order; a request that
\* is answered with a status other than 200 never ends the batch, it makes the
\* status-code error string the entry of its identifier and leaves every other
\* entry alone, and the returned result set holds a result for every identifier.
C8_NonOkIsolated == []C8_Batch /\ [][C8_Frame]_vars

C8_Witness ==
    /\ gfi_pc = "returned"
    /\ Len(gfi_ids) = 2
    /\ gfi_ids[1] # gfi_ids[2]
    /\ gfi_requests[1].status_code = 404
    /\ gfi_requests[2].status_code = 200
    /\ gfi_ret.m[gfi_ids[1]] = PyStr("Request failed with status code 404")
    /\ gfi_ret.m[gfi_ids[2]] = PyStr("summary")

\* C9 as stated: for an unrecognized field name the entry of every identifier
\* of the batch is the enumeration-of-valid-fields message.
C9_Original ==
    (gfi_pc = "returned" /\ gfi_field \notin RecognizedFields)
    => \A j \in 1..Len(gfi_ids) :
          data_out[gfi_ids[j]] = PyStr(InvalidFieldMessage(gfi_field))

\* C9 amended: for an unrecognized field name the entry of every identifier
\* whose record request (the last one, when the identifier is repeated)
\* returned 200 with a JSON body is the enumeration-of-valid-fields message.
C9_InvalidFieldOn200 ==
    (GfiStarted /\ gfi_field \notin RecognizedFields)
    => \A j \in 1..gfi_i :
          (gfi_requests[j].status_code = 200 /\ Answered(j) /\ IsLastRequest(j))
          => data_out[gfi_ids[j]] = PyStr(InvalidFieldMessage(gfi_field))

C9_Witness ==
    /\ gfi_pc = "returned"
    /\ gfi_field = "officialTitle"
    /\ Len(gfi_ids) = 2
    /\ gfi_ids[1] # gfi_ids[2]
    /\ gfi_requests[1].status_code = 200
    /\ gfi_requests[2].status_code = 200
    /\ data_out[gfi_ids[1]] = data_out[gfi_ids[2]]
    /\ data_out[gfi_ids[1]] = PyStr(InvalidFieldMessage("officialTitle"))

\* C10: for a recognized field and a fetched record (status 200, JSON body)
\* that lacks the field's path at any level, the request does not raise and
\* the entry of the identifier is the field's own fallback string.
C10_Fallback ==
    (/\ GfiStarted
     /\ gfi_i >= 1
     /\ gfi_response.kind = "http"
     /\ gfi_response.status_code = 200
     /\ gfi_response.body.valid
     /\ gfi_field \in RecognizedFields
     /\ LacksPath(gfi_response.body.data, FieldPath(gfi_field)))
    => /\ gfi_pc # "raised"
       /\ data_out[gfi_ids[gfi_i]] = PyStr(FieldFallback(gfi_field))

C10_Witness ==
    /\ gfi_pc = "returned"
    /\ gfi_field = "primaryOutcomes"
    /\ gfi_response = HttpOk(SetPath(FullDoc, <<"protocolSection", "outcomesModule">>,
                                     PyStr("text")))
    /\ data_out[gfi_ids[gfi_i]] = PyStr("No primary outcomes found")

----------------------------------------------------------------------------
(* Properties of the chat loop, checked under Spec and SpecLive *)

IsPrefix(a, b) == Len(a) <= Len(b) /\ SubSeq(b, 1, Len(a)) = a

Last(q) == q[Len(q)]

\* the messages appended since the current input was submitted
TurnMessages == SubSeq(messages, turnStart + 1, Len(messages))

\* every function-call response of the turn names a registered function and
\* carries arguments that json.loads accepts
TurnCallsValid ==
    \A k \in 1..Len(turnCalls) :
        turnCalls[k].name \in function_map /\ JsonLoads(turnCalls[k].arguments).ok

\* C1: a turn in which the LLM returned N valid function-call responses and
\* then a text response has appended, in order, the user message, N pairs
\* (notice of call k, function-result of call k) and the assistant text; the
\* call of line 389 was executed N times and the LLM was called N + 1 times.
C1_RoundTrip ==
    (pc = "done" /\ TurnCallsValid) =>
      LET N == Len(turnCalls)
          tm == TurnMessages
      IN /\ Len(tm) = 2 * N + 2
         /\ tm[1] = ChatMessage("user", PyStr(Prompt(turns)))
         /\ \A k \in 1..N :
               /\ tm[2 * k] =
                     ChatMessage("system",
                                 FormatCall(turnCalls[k].name,
                                            JsonLoads(turnCalls[k].arguments).v))
               /\ tm[2 * k + 1].role = "function"
               /\ tm[2 * k + 1].name = turnCalls[k].name
         /\ tm[2 * N + 2] = ChatMessage("assistant", PyStr(response.content))
         /\ response.kind = "text"
         /\ invocations = N
         /\ llmCallsTurn = N + 1

C1_Witness ==
    /\ pc = "done"
    /\ Len(turnCalls) = 1
    /\ invocations = 1
    /\ Len(TurnMessages) = 4
    /\ TurnMessages[1].role = "user"
    /\ TurnMessages[2].role = "system"
    /\ TurnMessages[3].role = "function"
    /\ TurnMessages[4].role = "assistant"

C2_Recovered ==
    (pc = "dispatching_function" /\ lastDispatch'.outcome = "raised")
    => /\ pc' = "awaiting_llm_response"
       /\ Len(messages') = Len(messages) + 2
       /\ IsPrefix(messages, messages')
       /\ messages'[Len(messages) + 1].role = "system"
       /\ Last(messages') =
             FunctionMessage(response.name,
                 JsonDumps(PyStr("Function call failed with error: "
                                 \o lastDispatch'.exc)))

C2_CalledAgain ==
    (pc = "awaiting_llm_response" /\ lastDispatch.outcome = "raised"
     /\ llmCalls' = llmCalls + 1)
    => (llmInput' = messages /\ Last(llmInput').role = "function")

\* C2: when the call of line 389 raises (in the handler or while binding the
\* arguments), the pass of the loop body still appends the notice and a
\* function-result message whose content is the exception text, the turn goes
\* on to the next LLM call, and that call receives the extended history.
C2_HandlerException == [][C2_Recovered /\ C2_CalledAgain]_vars

C2_Witness ==
    /\ pc = "dispatching_function"
    /\ llmCallsTurn = 2
    /\ lastDispatch.outcome = "raised"
    /\ lastDispatch.exc = "ConnectionError"
    /\ llmInput = messages
    /\ Last(messages) =
          FunctionMessage("get_field_info",
              JsonDumps(PyStr("Function call failed with error: ConnectionError")))

\* C3 as stated: a function-call request naming a function that is not in
\* function_map ends its pass of the loop body with a function-result message
\* appended and the turn waiting for the next LLM call.
C3_UnknownNameRecovered ==
    [][(pc = "dispatching_function" /\ response.name \notin function_map)
       => /\ pc' = "awaiting_llm_response"
          /\ Len(messages') > Len(messages)
          /\ Last(messages').role = "function"]_vars

\* C4 as stated: a function-call request for a registered function whose
\* arguments json.loads rejects ends its pass of the loop body with a
\* function-result message appended and the turn waiting for the next LLM call.
C4_UnparsableArgsRecovered ==
    [][(/\ pc = "dispatching_function"
        /\ response.name \in function_map
        /\ ~JsonLoads(response.arguments).ok)
       => /\ pc' = "awaiting_llm_response"
          /\ Len(messages') > Len(messages)
          /\ Last(messages').role = "function"]_vars

C5_DoneOnlyAfterText ==
    pc = "done" =>
      /\ response.kind = "text"
      /\ llmCallsTurn >= 1
      /\ llmInput = SubSeq(messages, 1, Len(messages) - 1)
      /\ Last(messages) = ChatMessage("assistant", PyStr(response.content))

\* C5: a turn is done only after the LLM returned a text response, and once
\* the LLM has returned a text response the turn reaches done with that text
\* as the last message of the history.
C5_Termination ==
    /\ []C5_DoneOnlyAfterText
    /\ \A t \in Texts :
          (pc = "appending_text" /\ response = TextResponse(t))
          ~> (pc = "done" /\ Last(messages) = ChatMessage("assistant", PyStr(t)))

C5_Witness ==
    /\ pc = "done"
    /\ Len(turnCalls) = 2
    /\ response = TextResponse("No trials found.")
    /\ Last(messages) = ChatMessage("assistant", PyStr("No trials found."))

\* C6: every step leaves the history it found as a prefix of the new history,
\* and every LLM call is handed the whole history.
C6_AppendOnly ==
    [][/\ IsPrefix(messages, messages')
       /\ llmCalls' # llmCalls => (llmInput' = messages /\ messages' = messages)]_vars

C6_Witness ==
    /\ turns = 2
    /\ llmCalls >= 4
    /\ Len(messages) >= 7
    /\ llmInput = messages
    /\ messages[2] = ChatMessage("user", PyStr("prompt 1"))

\* C7: without a credential a submitted input makes no LLM call and no
\* dispatch, appends nothing but the user message, shows the notice and stops.
C7_NoCredential ==
    ~openai_api_key =>
      /\ llmCalls = 0
      /\ invocations = 0
      /\ llmInput = <<>>
      /\ pc \in {"awaiting_user_input", "stopped"}
      /\ Len(messages) = 1 + turns
      /\ \A i \in 2..Len(messages) : messages[i].role = "user"
      /\ turns > 0 => (pc = "stopped" /\ info)

C7_Witness ==
    /\ ~openai_api_key
    /\ pc = "stopped"
    /\ info
    /\ turns = 1
    /\ Last(messages) = ChatMessage("user", PyStr("prompt 1"))

----------------------------------------------------------------------------
(* The identifier list of get_field_info, lines 236-237 *)
MaxSplitLen == 3   \* longest nct_ids argument with tabs, in characters

SplitChars == {"A", ",", " ", "\t"}

RECURSIVE SplitCharSeqs(_)
SplitCharSeqs(n) ==
    IF n = 0 THEN {<<>>}
    ELSE SplitCharSeqs(n - 1)
         \cup {Append(cs, c) :
                  cs \in {x \in SplitCharSeqs(n - 1) : Len(x) = n - 1},
                  c \in SplitChars}

\* "NCT1,  NCT2,NCT3"
ExampleArg == <<"N", "C", "T", "1", ",", " ", " ", "N", "C", "T", "2", ",",
                "N", "C", "T", "3">>

SplitArgs == SplitCharSeqs(MaxSplitLen) \cup {ExampleArg}

\* calls of get_field_info whose nct_ids argument may hold tabs
InitSplit ==
    /\ ChatInit
    /\ ToolsIdle
    /\ openai_api_key
    /\ gfi_pc = "called"
    /\ gfi_arg \in SplitArgs
    /\ gfi_field = "studySummary"
    /\ gfi_ids = <<>>
    /\ gfi_i = 0
    /\ data_out = EmptyMap
    /\ gfi_requests = <<>>
    /\ gfi_response = NoResponse
    /\ gfi_ret = PyNone

SpecSplit == InitSplit /\ [][NextFieldInfo]_vars

IsWhitespace(c) == c \in {" ", "\t", "\n"}

NotWhitespace(c) == ~IsWhitespace(c)

\* the items between the commas of cs, whitespace characters left out
StrippedItems(cs) == SplitAcc(SelectSeq(cs, NotWhitespace), <<>>)

\* C11 as stated: the identifier list is the list of the comma separated
\* items of the argument with all whitespace stripped, in input order.
C11_SplitStripsWhitespace ==
    GfiStarted => gfi_ids = StrippedItems(gfi_arg)

----------------------------------------------------------------------------
(* One call of study_search, lines 193-231 *)
MaxStudies == 3   \* most studies in one search response

\* lines 199-204
SearchParams(query_term, pageSize) ==
    ("format" :> PyStr("json"))
    @@ ("query.parser" :> PyStr("advanced"))
    @@ ("query.term" :> query_term)
    @@ ("pageSize" :> pageSize)

QueryTerms == {"cancer", "AREA[Phase]PHASE2"}
PageSizes == {1, 20, 21, 100}

\* the keyword arguments of a call: each parameter given or left out
SearchKwargs ==
    {EmptyMap} \cup {("query_term" :> PyStr(q)) : q \in QueryTerms}
    \cup {("pageSize" :> PyInt(p)) : p \in PageSizes}
    \cup {("query_term" :> PyStr(q)) @@ ("pageSize" :> PyInt(p)) :
             q \in QueryTerms, p \in PageSizes}

SearchStatus == {204, 400, 404, 500}

\* bodies the loop of lines 217-219 cannot read
UnreadableDocs ==
    { PyDict(EmptyMap),
      PyDict("studies" :> PyList(<<Study(1), DelPath(Study(2), TitlePath)>>)),
      PyDict("studies" :> PyList(<<DelPath(Study(1), NctIdPath)>>)) }

SearchResponses ==
    {HttpOk(SearchDoc(n)) : n \in 0..MaxStudies}
    \cup {HttpOk(PyDict("studies" :> PyList(<<Study(2), Study(1)>>)))}
    \cup {HttpOk(doc) : doc \in UnreadableDocs}
    \cup {HttpStatus(c) : c \in SearchStatus}
    \cup {HttpNotJson, RequestsRaise}

InitSearch ==
    /\ ChatInit
    /\ openai_api_key
    /\ GfiIdle
    /\ CsvIdle
    /\ ss_pc = "called"
    /\ ss_kwargs \in SearchKwargs
    /\ ss_params = EmptyMap
    /\ ss_response = NoResponse
    /\ ss_ret = PyNone

\* lines 193-231, the arguments bound as line 389 binds them
StudySearch ==
    /\ ss_pc = "called"
    /\ \E resp \in SearchResponses :
          LET query_term == Arg("study_search", ss_kwargs, "query_term")
              pageSize == Arg("study_search", ss_kwargs, "pageSize")
              r == study_search(query_term, pageSize, resp)
          IN /\ ss_params' = SearchParams(query_term, pageSize)
             /\ ss_response' = resp
             /\ ss_pc' = IF r.raised THEN "raised" ELSE "returned"
             /\ ss_ret' = r.value
    /\ UNCHANGED <<ss_kwargs, chatVars, gfiVars, csvVars>>

NextSearch == StudySearch

SpecSearch == InitSearch /\ [][NextSearch]_vars

SearchAnswered == ss_pc \in {"returned", "raised"}

\* a 200 response whose body is a list of studies, each with a brief title
\* and an identifier
IsStudyListing(resp) ==
    /\ resp.kind = "http"
    /\ resp.status_code = 200
    /\ resp.body.valid
    /\ resp.body.data.t = "dict"
    /\ "studies" \in DOMAIN resp.body.data.m
    /\ resp.body.data.m["studies"].t = "list"
    /\ \A i \in 1..Len(resp.body.data.m["studies"].e) :
          LET s == resp.body.data.m["studies"].e[i]
          IN /\ Lookup(s, <<"protocolSection", "identificationModule">>).ok
             /\ {"briefTitle", "nctId"} \subseteq
                   DOMAIN s.m["protocolSection"].m["identificationModule"].m

\* C12: for a 200 search response listing n studies, study_search returns a
\* summary whose Number of Results is n and whose Study Name and NCT_ID
\* lists have length n, entry i of each taken from study i.
C12_SearchSummary ==
    (SearchAnswered /\ IsStudyListing(ss_response)) =>
        LET studies == ss_response.body.data.m["studies"].e
            n == Len(studies)
            id(i) == studies[i].m["protocolSection"].m["identificationModule"].m
        IN /\ ss_pc = "returned"
           /\ ss_ret.t = "dict"
           /\ ss_ret.m["Number of Results"] = PyInt(n)
           /\ ss_ret.m["Study Name"].t = "list"
           /\ ss_ret.m["NCT_ID"].t = "list"
           /\ Len(ss_ret.m["Study Name"].e) = n
           /\ Len(ss_ret.m["NCT_ID"].e) = n
           /\ \A i \in 1..n :
                 /\ ss_ret.m["Study Name"].e[i] = id(i)["briefTitle"]
                 /\ ss_ret.m["NCT_ID"].e[i] = id(i)["nctId"]

C12_Witness ==
    /\ ss_pc = "returned"
    /\ ss_response = HttpOk(SearchDoc(3))
    /\ ss_ret.m["Number of Results"] = PyInt(3)
    /\ ss_ret.m["NCT_ID"] = PyList(<<PyStr("NCT1"), PyStr("NCT2"), PyStr("NCT3")>>)

IsNon200(resp) == resp.kind = "http" /\ resp.status_code # 200

\* C13: for every non-200 search response study_search returns, and does not
\* raise, a plain string that holds the numeric status code; the value has
\* none of the fields of the structured summary.
C13_Non200IsString ==
    (SearchAnswered /\ IsNon200(ss_response)) =>
        /\ ss_pc = "returned"
        /\ ss_ret.t = "str"
        /\ ss_ret.s = "Request failed with status code "
                         \o ToString(ss_response.status_code)
        /\ DOMAIN ss_ret = {"t", "s"}

C13_Witness ==
    /\ ss_pc = "returned"
    /\ ss_response = HttpStatus(404)
    /\ ss_ret = PyStr("Request failed with status code 404")

\* C18 as stated: the page size sent to the search endpoint is 10 when the
\* call leaves it out, and is never above 20 whatever the call supplies.
C18_PageSizeAtMost20 ==
    SearchAnswered =>
        /\ ("pageSize" \notin DOMAIN ss_kwargs => ss_params["pageSize"] = PyInt(10))
        /\ ss_params["pageSize"].n <= 20

----------------------------------------------------------------------------
(* A sequence of calls of save_csv, lines 182-191 *)
MaxSaves == 3   \* calls of save_csv in one run

CsvTexts == {"a,b", "c,d"}
CsvTitles == {"out", "data"}

\* the keyword arguments of a call: each parameter given or left out
CsvKwargs ==
    {EmptyMap} \cup {("text" :> PyStr(x)) : x \in CsvTexts}
    \cup {("title" :> PyStr(t)) : t \in CsvTitles}
    \cup {("text" :> PyStr(x)) @@ ("title" :> PyStr(t)) :
             x \in CsvTexts, t \in CsvTitles}

CsvEnvs == {Env(NoResponse, <<>>, b) : b \in BOOLEAN}

\* line 189: the value of a call that wrote the file
SavedTo(title) == PyStr("Saved to:" \o Cwd \o "/" \o title \o ".csv")

InitCsv ==
    /\ ChatInit
    /\ openai_api_key
    /\ GfiIdle
    /\ ToolsIdle

\* lines 182-191, the arguments bound as line 389 binds them
SaveCsv ==
    /\ csv_calls < MaxSaves
    /\ \E kwargs \in CsvKwargs, env \in CsvEnvs :
          LET text == Arg("save_csv", kwargs, "text")
              title == Arg("save_csv", kwargs, "title")
              r == save_csv(text, title, files, env)
              saved == title.t = "str" /\ r.value = SavedTo(title.s)
          IN /\ ~r.raised
             /\ files' = r.files
             /\ csv_ret' = r.value
             /\ csv_kwargs' = kwargs
             /\ csv_saved' =
                   IF saved
                   THEN [n \in (DOMAIN csv_saved) \cup {title.s \o ".csv"} |->
                            IF n = title.s \o ".csv" THEN text.s ELSE csv_saved[n]]
                   ELSE csv_saved
    /\ csv_calls' = csv_calls + 1
    /\ UNCHANGED <<messages, pc, openai_api_key, choice, response, turns,
                   turnStart, rounds, turnCalls, invocations, llmCalls,
                   llmCallsTurn, llmInput, lastDispatch, info>>
    /\ UNCHANGED <<gfiVars, searchVars>>

NextCsv == SaveCsv

SpecCsv == InitCsv /\ [][NextCsv]_vars

\* the file the last call named, "" when it named none
CsvName == IF "title" \in DOMAIN csv_kwargs
           THEN csv_kwargs["title"].s \o ".csv" ELSE ""

\* C14 as stated: after any sequence of save_csv calls the file of a title
\* holds exactly the text of the most recent successful call with that
\* title, a call leaves the files of other titles unchanged, and a failing
\* write returns an error string.
C14_LastSuccessfulText ==
    /\ [](\A n \in DOMAIN csv_saved :
             n \in DOMAIN files /\ files[n] = csv_saved[n])
    /\ [](csv_calls > 0 => csv_ret.t = "str")
    /\ [][csv_calls' # csv_calls =>
             \A n \in DOMAIN files :
                 n # CsvName' => n \in DOMAIN files' /\ files'[n] = files[n]]_vars

----------------------------------------------------------------------------
(* The message for an unrecognized field, checked under SpecFieldInfo *)

\* C17 as stated: the message returned for an unrecognized field names
\* every one of the eleven fields get_field_info recognizes.
C17_MessageNamesAllFields ==
    \A id \in DOMAIN data_out :
        (gfi_field \notin RecognizedFields
            /\ data_out[id] = PyStr(InvalidFieldMessage(gfi_field)))
        => \A f \in RecognizedFields :
              \E k \in 1..Len(ValidFieldsNamed) : ValidFieldsNamed[k] = f

----------------------------------------------------------------------------
(* Order of the steps of a turn, checked under Spec *)

\* the function-call responses, handler calls and LLM calls of the turn keep
\* step: a response is handled once, before the next LLM call
TurnCounts ==
    /\ invocations <= Len(turnCalls)
    /\ pc = "awaiting_llm_response" =>
          (invocations = Len(turnCalls) /\ llmCallsTurn = invocations)
    /\ pc = "dispatching_function" =>
          (Len(turnCalls) = invocations + 1 /\ llmCallsTurn = invocations + 1)
    /\ pc \in {"appending_text", "done"} =>
          (invocations = Len(turnCalls) /\ llmCallsTurn = invocations + 1)

\* an LLM call is made only when every earlier response of the turn has been
\* handled, and a handler call leaves the LLM uncalled
OneDispatchPerCall ==
    /\ llmCallsTurn' = llmCallsTurn + 1 =>
          (invocations = llmCallsTurn /\ invocations' = invocations)
    /\ (turns' = turns /\ invocations' # invocations) =>
          /\ pc = "dispatching_function"
          /\ invocations' = invocations + 1
          /\ llmCalls' = llmCalls
          /\ pc' = "awaiting_llm_response"

\* an input is accepted only when no turn is running
TurnEnded == pc \in {"awaiting_user_input", "done", "stopped", "crashed"}

\* the turn before the current one reached done: its last message, the one
\* the current input was appended after, is the assistant's
PreviousTurnDone == turns >= 1 => messages[turnStart].role = "assistant"

\* C15 as stated: a function-call response causes at most one handler call,
\* which completes before the next LLM call, and no input is accepted before
\* the turn before it has reached done.
C15_Original == TurnCounts /\ PreviousTurnDone

\* C15 amended: within a turn each function-call response causes at most one
\* handler call, the call completes before the next LLM call, exactly one
\* request is dispatched between two consecutive LLM calls, and no input is
\* accepted before the current turn has ended: done, stopped for the missing
\* credential, or aborted by an exception.
C15_Sequential ==
    /\ []TurnCounts
    /\ [][OneDispatchPerCall]_vars
    /\ [][turns' # turns => TurnEnded]_vars

C15_Witness ==
    /\ turns = 2
    /\ messages[turnStart].role # "assistant"
    /\ pc = "awaiting_llm_response"
    /\ Len(turnCalls) = 1
    /\ invocations = 1
    /\ llmCallsTurn = 1

\* C16: the loop has no cap on its passes. A valid function-call response
\* is dispatched and followed by another LLM call however many passes the
\* turn has made, and a turn is done only when an LLM call of the turn
\* returned text.
C16_NoRoundCap ==
    /\ [](pc = "done" =>
             (response.kind = "text" /\ llmCallsTurn = Len(turnCalls) + 1))
    /\ [][(/\ pc = "dispatching_function"
           /\ response.name \in function_map
           /\ JsonLoads(response.arguments).ok
           /\ pc' # pc)
          => /\ pc' = "awaiting_llm_response"
             /\ invocations' = invocations + 1
             /\ Len(messages') = Len(messages) + 2]_vars

C16_Witness ==
    /\ pc = "awaiting_llm_response"
    /\ Len(turnCalls) = 2
    /\ invocations = 2
    /\ TurnCallsValid
    /\ Len(TurnMessages) = 5

\* C19: every system notice in the history is immediately followed by the
\* function-result message of the function the notice names, and the history
\* handed to an LLM call ends with a user message or a function result.
C19_NoticePaired ==
    /\ \A i \in 1..Len(messages) :
          messages[i].role = "system" =>
             /\ i < Len(messages)
             /\ messages[i + 1].role = "function"
             /\ messages[i].content.s =
                   "Calling function " \o messages[i + 1].name
                      \o " with arguments: {}"
    /\ pc = "awaiting_llm_response" => Last(messages).role \in {"user", "function"}
    /\ llmCalls > 0 => Last(llmInput).role \in {"user", "function"}

C19_Witness ==
    /\ pc = "done"
    /\ Len(turnCalls) = 2
    /\ turnCalls[1].name # turnCalls[2].name
    /\ TurnMessages[2].role = "system"
    /\ TurnMessages[4].role = "system"
    /\ Last(llmInput).role = "function"

\* C20: the user message is appended before the credential is tested: with
\* no credential every submitted input appends exactly its user message, so
\* after k inputs the history is the greeting followed by k user messages.
C20_UserMessageBeforeCheck ==
    /\ [](~openai_api_key =>
             /\ IsPrefix(<<ChatMessage("assistant", PyStr("How can I help you?"))>>,
                         messages)
             /\ messages = <<messages[1]>> \o
                   [k \in 1..turns |-> ChatMessage("user", PyStr(Prompt(k)))])
    /\ [][(~openai_api_key /\ turns' # turns) =>
             messages' = Append(messages,
                                ChatMessage("user", PyStr(Prompt(turns + 1))))]_vars

C20_Witness ==
    /\ ~openai_api_key
    /\ turns = 2
    /\ pc = "stopped"
    /\ Len(messages) = 3
    /\ messages[2] = ChatMessage("user", PyStr("prompt 1"))
    /\ messages[3] = ChatMessage("user", PyStr("prompt 2"))

====
